---- MODULE Spec2Model ----
(***************************************************************************)
(* cargo-erlangapp: build / test / clean of the crates of an Erlang        *)
(* application (src/src/lib.rs).                                           *)
(*                                                                         *)
(* Text is modelled as a sequence of symbols: "=" is the character '=',    *)
(* and every other symbol stands for a block of characters without '='     *)
(* ("--target", "lib", ".so", a name).  An argument list is a sequence of  *)
(* such texts, a path a sequence of components (texts).                    *)
(***************************************************************************)
EXTENDS Integers, Sequences, FiniteSets, TLC

\* ------------------------------------------------------------------ bounds
\* operations (invocations of the tool) in one behaviour
MaxOps == 3
\* pass-through arguments after the command name
MaxTail == 2
\* arguments after the command name when the spellings of an option are tried
MaxOptArgs == 3

\* ------------------------------------------------------------ text helpers
\* Option<T>: None or Some(x)
None == <<>>
Some(x) == <<x>>

\* starts_with that asks for the whole text
starts_with_Whole(s, p) == s = p

\* str::starts_with
starts_with(s, p) ==
    /\ Len(s) >= Len(p)
    /\ SubSeq(s, 1, Len(p)) = p

\* positions of '=' in a text
EqPositions(s) == {i \in 1..Len(s) : s[i] = "="}

Least(S) == CHOOSE i \in S : \A j \in S : i <= j

\* s.split('=').nth(1): the piece between the first '=' and the next one
\* (or the end of the text); None when the text holds no '='
split_nth1(s) ==
    IF EqPositions(s) = {} THEN None
    ELSE LET first == Least(EqPositions(s))
             later == {i \in EqPositions(s) : i > first}
             stop  == IF later = {} THEN Len(s) + 1 ELSE Least(later)
         IN  Some(SubSeq(s, first + 1, stop - 1))

\* ------------------------------------------------------- option parsing
\* find_option: some argument is exactly the key
find_option(args, key) == \E i \in 1..Len(args) : args[i] = key

\* the loop of find_option_value, with the iterator at position i
RECURSIVE find_option_value_from(_, _, _)
find_option_value_from(args, key, i) ==
    IF i > Len(args) THEN None
    ELSE LET arg0 == args[i] IN
      IF ~starts_with(arg0, key) THEN find_option_value_from(args, key, i + 1)
      ELSE LET v == split_nth1(arg0) IN
        IF v = Some(<<>>)
          THEN (IF i + 1 <= Len(args) THEN Some(args[i + 1]) ELSE None)
        ELSE IF v # None THEN v
        ELSE IF arg0 = key THEN
          (IF i + 1 > Len(args) THEN None
           ELSE LET arg1 == args[i + 1] IN
             IF arg1 = <<"=">>
               THEN (IF i + 2 <= Len(args) THEN Some(args[i + 2]) ELSE None)
             ELSE IF starts_with(arg1, <<"=">>) THEN split_nth1(arg1)
             ELSE find_option_value_from(args, key, i + 2))
        ELSE find_option_value_from(args, key, i + 1)

find_option_value(args, key) == find_option_value_from(args, key, 1)

\* parse_cmd_name that takes a capital first letter as well
parse_cmd_name_AnyCase(arg) ==
    IF arg \in {<<"build">>, <<"Build">>} THEN Some("Build")
    ELSE IF arg = <<"test">> THEN Some("Test")
    ELSE IF arg = <<"clean">> THEN Some("Clean")
    ELSE None

\* parse_cmd_name
parse_cmd_name(arg) ==
    IF arg = <<"build">> THEN Some("Build")
    ELSE IF arg = <<"test">> THEN Some("Test")
    ELSE IF arg = <<"clean">> THEN Some("Clean")
    ELSE None

\* args[2..] of the source (0-based) is the tail from the third element
Tail2(args) == SubSeq(args, 3, Len(args))

\* ArgsInfo::from_args
from_args(args) ==
    IF Len(args) < 2 THEN None
    ELSE IF parse_cmd_name(args[2]) = None THEN None
    ELSE Some([command    |-> parse_cmd_name(args[2])[1],
               target     |-> find_option_value(Tail2(args), <<"--target">>),
               build_type |-> IF find_option(args, <<"--release">>) THEN "Release"
                              ELSE IF find_option(args, <<"--debug">>) THEN "Debug"
                              ELSE "DefaultDebug",
               cargo_args |-> Tail2(args)])

\* ------------------------------------------------------------- targets
Platforms == {"unix", "macos", "windows"}

Bin(s) == [kind |-> "Bin", name |-> s]
Dylib(s) == [kind |-> "Dylib", name |-> s]

\* target_filenames with the names of the third body whatever the cfg
target_filenames_OneBody(pf, target) ==
    IF target.kind = "Bin" THEN <<target.name, target.name>>
    ELSE <<(<<"lib">> \o target.name) \o <<".so">>,
           (<<"lib">> \o target.name) \o <<".so">>>>

\* target_filenames: (destination name, source name), one body per cfg
target_filenames(pf, target) ==
    IF pf = "macos" THEN
        IF target.kind = "Bin" THEN <<target.name, target.name>>
        ELSE <<(<<"lib">> \o target.name) \o <<".so">>,
               (<<"lib">> \o target.name) \o <<".dylib">>>>
    ELSE IF pf = "windows" THEN
        IF target.kind = "Bin"
          THEN <<target.name \o <<".exe">>, target.name \o <<".exe">>>>
          ELSE <<target.name \o <<".dll">>, target.name \o <<".dll">>>>
    ELSE
        IF target.kind = "Bin" THEN <<target.name, target.name>>
        ELSE <<(<<"lib">> \o target.name) \o <<".so">>,
               (<<"lib">> \o target.name) \o <<".so">>>>

\* linker_args, one body per cfg
linker_args(pf, target) ==
    IF pf = "macos" /\ target.kind = "Dylib"
      THEN << <<"--">>, <<"--codegen">>,
              <<"link-args", "=", "'-flat_namespace -undefined suppress'">> >>
      ELSE <<>>

\* Target::from_json on one element of "targets": obj.name and obj.kind are
\* Options (absent or of the wrong JSON type is None)
from_json(obj) ==
    IF obj.name = None THEN None
    ELSE IF obj.kind = None THEN None
    ELSE LET kinds == obj.kind[1] IN
      IF \E i \in 1..Len(kinds) : kinds[i] = "bin" THEN Some(Bin(obj.name[1]))
      ELSE IF \E i \in 1..Len(kinds) : kinds[i] = "dylib" THEN Some(Dylib(obj.name[1]))
      ELSE None

\* filter_map over a sequence of Options
RECURSIVE FilterMapOpt(_)
FilterMapOpt(opts) ==
    IF opts = <<>> THEN <<>>
    ELSE opts[1] \o FilterMapOpt(Tail(opts))

\* enumerate_targets_opt that takes a document without "targets" as one with
\* no targets
enumerate_targets_opt_NoTargetsIsEmpty(out) ==
    IF ~out.json THEN None
    ELSE IF out.targets = None THEN Some(<<>>)
    ELSE Some(FilterMapOpt([i \in 1..Len(out.targets[1]) |-> from_json(out.targets[1][i])]))

\* enumerate_targets_opt on the text printed by `cargo read-manifest`:
\* json = FALSE when the text is not JSON, targets = None when the document
\* has no "targets" array
enumerate_targets_opt(out) ==
    IF ~out.json THEN None
    ELSE IF out.targets = None THEN None
    ELSE Some(FilterMapOpt([i \in 1..Len(out.targets[1]) |-> from_json(out.targets[1][i])]))

\* ---------------------------------------------------- project directories
\* A project (appdir) as the tool finds it: whether <appdir>/crates can be
\* read, and its entries in directory-listing order.  err: the listing
\* yields an error for the entry; toml: what <entry>/Cargo.toml is;
\* manifest: what `cargo read-manifest` prints there.
Entry(n, t, m) == [name |-> n, err |-> FALSE, toml |-> t, manifest |-> m]

\* an entry for which the listing itself gives an error
ErrEntry(n) == [name |-> n, err |-> TRUE, toml |-> "error", manifest |-> [json |-> FALSE, targets |-> None]]

JsonTarget(n, ks) == [name |-> Some(n), kind |-> Some(ks)]

M_helloexe == [json |-> TRUE, targets |-> Some(<<JsonTarget(<<"helloexe">>, <<"bin">>)>>)]
M_bonjourdylib == [json |-> TRUE, targets |-> Some(<<JsonTarget(<<"bonjourdylib">>, <<"dylib">>)>>)]
M_holalib == [json |-> TRUE, targets |-> Some(<<JsonTarget(<<"holalib">>, <<"lib">>)>>)]
M_multi == [json |-> TRUE,
            targets |-> Some(<<JsonTarget(<<"multi">>, <<"rlib", "dylib">>),
                               JsonTarget(<<"multi">>, <<"bin">>),
                               JsonTarget(<<"demo">>, <<"example">>),
                               [name |-> None, kind |-> Some(<<"bin">>)]>>)]
M_nif == [json |-> TRUE, targets |-> Some(<<JsonTarget(<<"nif">>, <<"cdylib">>)>>)]
M_notjson == [json |-> FALSE, targets |-> None]
M_notargets == [json |-> TRUE, targets |-> None]

TestApp ==
    [readable |-> TRUE,
     entries |-> <<Entry(<<"bonjourdylib">>, "file", M_bonjourdylib),
                   Entry(<<"doc">>, "none", M_notjson),
                   Entry(<<"holalib">>, "file", M_holalib),
                   Entry(<<"helloexe">>, "file", M_helloexe)>>]

\* a project whose crates directory holds no crate
EmptyApp == [readable |-> TRUE, entries |-> <<Entry(<<"doc">>, "none", M_notjson)>>]

Projects ==
    { [readable |-> FALSE, entries |-> <<>>],
      EmptyApp,
      TestApp,
      [readable |-> TRUE,
       entries |-> <<Entry(<<"multi">>, "file", M_multi),
                     Entry(<<"Cargo.toml">>, "dir", M_notjson),
                     Entry(<<"nif">>, "file", M_nif),
                     Entry(<<"broken">>, "file", M_notargets)>>],
      [readable |-> TRUE,
       entries |-> <<ErrEntry(<<"lost">>),
                     Entry(<<"notjson">>, "file", M_notjson),
                     Entry(<<"helloexe">>, "file", M_helloexe)>>] }

\* appdir.join("crates").join(name), relative to appdir
crate_path(e) == << <<"crates">>, e.name >>

\* Path::file_name
file_name(path) == path[Len(path)]

\* is_crate that takes any Cargo.toml that exists
is_crate_Exists(dirent) == dirent.toml \in {"file", "dir"}

\* is_crate
is_crate(dirent) == dirent.toml = "file"

dirent_ok(dirent) == ~dirent.err

RECURSIVE MapPath(_)
MapPath(es) == IF es = <<>> THEN <<>> ELSE <<crate_path(es[1])>> \o MapPath(Tail(es))

\* enumerate_crate_dirs: a read_dir error gives the empty iterator
enumerate_crate_dirs(cd) ==
    IF ~cd.readable THEN <<>>
    ELSE MapPath(SelectSeq(SelectSeq(cd.entries, dirent_ok), is_crate))

\* the entry of the listing a crate directory came from
EntryOf(cd, dir) == CHOOSE e \in {cd.entries[i] : i \in 1..Len(cd.entries)} : crate_path(e) = dir

\* --------------------------------------------------------------- arguments
ArgWords == { <<"--release">>, <<"--debug">>, <<"--target", "=", "t">> }

ArgTails == UNION {[1..n -> ArgWords] : n \in 0..MaxTail}

\* the program name is whatever the caller passes as first argument
ProgramNames == { <<"cargo-erlangapp">>, <<"--release">> }

CommandWords == { <<"build">>, <<"test">>, <<"clean">>, <<"Build">> }

ArgVectors ==
    {<<>>} \cup {<<p>> : p \in ProgramNames}
           \cup {<<p, c>> : p \in ProgramNames, c \in CommandWords}
           \cup {(<< <<"cargo-erlangapp">>, c >>) \o t : c \in CommandWords, t \in ArgTails}

\* arguments that spell, or nearly spell, the option --target
OptionWords ==
    { <<"--target">>, <<"--target", "=">>, <<"--target", "=", "v">>,
      <<"--target", "=", "a", "=", "b">>, <<"--target", "-dir", "=", "x">>,
      <<"=">>, <<"=", "v">>, <<"v">>, <<"--verbose">> }

OptionTails == UNION {[1..n -> OptionWords] : n \in 0..MaxOptArgs}

\* ------------------------------------------------------------------ state
VARIABLES
    args,        \* the argument vector of the running process
    platform,    \* the cfg the tool was compiled for
    crates_dir,  \* <appdir>/crates
    out_kind,    \* <appdir>/priv/crates: "absent", "dir" or "file"
    out_dirs,    \* directories under priv/crates
    out_files,   \* files under priv/crates: path |-> the path it was copied from
    pc,          \* position of the process: "idle" is none running, "done" is returned
    argsinfo,    \* ArgsInfo of the running / last operation
    crate_dirs,  \* the Vec the operation iterates over
    ci,          \* index of the current crate_dir
    targets,     \* targets of the current crate
    ti,          \* index of the current target
    result,      \* outcome of the last operation
    log,         \* system calls and subprocesses of the running / last operation
    start_kind,  \* out_kind when the operation started
    ops          \* operations started

vars == <<args, platform, crates_dir, out_kind, out_dirs, out_files, pc, argsinfo,
          crate_dirs, ci, targets, ti, result, log, start_kind, ops>>

outvars == <<out_kind, out_dirs, out_files>>

NoTarget == [kind |-> "none", name |-> <<>>]

NoArgsInfo == [command |-> "None", target |-> None,
               build_type |-> "DefaultDebug", cargo_args |-> <<>>]

Ev(op, cmd, as, dir, tgt, src, dst, ok) ==
    [op |-> op, cmd |-> cmd, args |-> as, dir |-> dir, tgt |-> tgt,
     src |-> src, dst |-> dst, ok |-> ok]

NoFiles == [p \in {} |-> <<>>]

Init ==
    /\ args = <<>>
    /\ platform \in Platforms
    /\ crates_dir \in Projects
    /\ out_kind \in {"absent", "file"}
    /\ out_dirs = {}
    /\ out_files = NoFiles
    /\ pc = "idle"
    /\ argsinfo = NoArgsInfo
    /\ crate_dirs = <<>>
    /\ ci = 1
    /\ targets = <<>>
    /\ ti = 1
    /\ result = "none"
    /\ log = <<>>
    /\ start_kind = out_kind
    /\ ops = 0

\* ----------------------------------------------------------------- paths
\* the output directory <appdir>/priv/crates
output_dir == << <<"priv">>, <<"crates">> >>

\* "build src path" of build_crates
src_path(ai, pf, crate_dir, target) ==
    ((Append(crate_dir, <<"target">>)
        \o (IF ai.target # None THEN <<ai.target[1]>> ELSE <<>>))
        \o << IF ai.build_type = "Release" THEN <<"release">> ELSE <<"debug">> >>)
        \o << target_filenames(pf, target)[2] >>

\* "build dst path" of build_crates, before the file name is pushed
dst_dir(crate_dir) == Append(output_dir, file_name(crate_dir))

\* dst_path that keeps the name cargo gave the artifact
dst_path_SourceName(pf, crate_dir, target) ==
    Append(dst_dir(crate_dir), target_filenames(pf, target)[2])

dst_path(pf, crate_dir, target) ==
    Append(dst_dir(crate_dir), target_filenames(pf, target)[1])

\* "args for build target" of build_crates
rustc_args(ai, pf, target) ==
    ((IF target.kind = "Bin" THEN << <<"--bin">>, target.name >> ELSE << <<"--lib">> >>)
        \o ai.cargo_args)
        \o linker_args(pf, target)

\* Result of cargo_command for what Command::status() gives
cargo_result(st) ==
    IF st = "nostart" THEN "cannot start cargo"
    ELSE IF st = "failed" THEN "cargo command failed"
    ELSE "Ok"

CargoStatus == {"ok", "nostart", "failed"}

\* an operation returns to invoke(), which reports the error if there is one
Return(r) ==
    /\ result' = r
    /\ pc' = "done"

\* ------------------------------------------------------------- operations
\* main / invoke_with_args, invoke, do_command: a process starts, parses the
\* arguments, and prints the usage or enters the operation, whose loop starts
\* by enumerate_crate_dirs
Invoke(a) ==
    /\ pc = "idle"
    /\ ops < MaxOps
    /\ args' = a
    /\ LET ai == from_args(a) IN
           /\ ops' = ops + 1
           /\ IF ai = None
                THEN /\ Return("usage")
                     /\ UNCHANGED <<argsinfo, crate_dirs>>
                ELSE /\ argsinfo' = ai[1]
                     /\ crate_dirs' = enumerate_crate_dirs(crates_dir)
                     /\ result' = "none"
                     /\ pc' = IF ai[1].command = "Build" THEN "build_crates"
                              ELSE IF ai[1].command = "Test" THEN "test_crates"
                              ELSE "clean_crates"
    /\ UNCHANGED <<platform, crates_dir, outvars, ci, targets, ti, log, start_kind>>

InvokeWithArgs == \E a \in ArgVectors : Invoke(a)

\* main returns: the process and what it held are gone, the files stay
Exit ==
    /\ pc = "done"
    /\ pc' = "idle"
    /\ args' = <<>>
    /\ argsinfo' = NoArgsInfo
    /\ crate_dirs' = <<>>
    /\ ci' = 1
    /\ targets' = <<>>
    /\ ti' = 1
    /\ result' = "none"
    /\ log' = <<>>
    /\ start_kind' = out_kind
    /\ UNCHANGED <<platform, crates_dir, outvars, ops>>

\* BuildEnumerateTargets that takes a manifest without recognized targets as
\* one that cannot be parsed
BuildEnumerateTargets_EmptyIsError ==
    /\ pc = "build_crates"
    /\ UNCHANGED <<args, platform, crates_dir, outvars, argsinfo, crate_dirs, ci,
                   start_kind, ops>>
    /\ ti' = 1
    /\ IF ci > Len(crate_dirs)
         THEN /\ Return("Ok")
              /\ UNCHANGED <<targets, log>>
         ELSE \E launched \in BOOLEAN :
                LET dir == crate_dirs[ci]
                    ts  == enumerate_targets_opt(EntryOf(crates_dir, dir).manifest)
                IN
                /\ log' = Append(log, Ev("read-manifest", "", <<>>, dir, NoTarget,
                                         <<>>, <<>>, launched))
                /\ IF ~launched
                     THEN /\ Return("Cannot read crate manifest")
                          /\ UNCHANGED targets
                     ELSE IF ts = None \/ ts = Some(<<>>)
                     THEN /\ Return("Cannot parse crate manifest")
                          /\ UNCHANGED targets
                     ELSE /\ targets' = ts[1]
                          /\ pc' = "build_target"
                          /\ UNCHANGED result

\* build_crates, head of the outer loop: enumerate_targets of the next crate
BuildEnumerateTargets ==
    /\ pc = "build_crates"
    /\ UNCHANGED <<args, platform, crates_dir, outvars, argsinfo, crate_dirs, ci,
                   start_kind, ops>>
    /\ ti' = 1
    /\ IF ci > Len(crate_dirs)
         THEN /\ Return("Ok")
              /\ UNCHANGED <<targets, log>>
         ELSE \E launched \in BOOLEAN :
                LET dir == crate_dirs[ci]
                    ts  == enumerate_targets_opt(EntryOf(crates_dir, dir).manifest)
                IN
                /\ log' = Append(log, Ev("read-manifest", "", <<>>, dir, NoTarget,
                                         <<>>, <<>>, launched))
                /\ IF ~launched
                     THEN /\ Return("Cannot read crate manifest")
                          /\ UNCHANGED targets
                     ELSE IF ts = None
                     THEN /\ Return("Cannot parse crate manifest")
                          /\ UNCHANGED targets
                     ELSE /\ targets' = ts[1]
                          /\ pc' = "build_target"
                          /\ UNCHANGED result

\* BuildRustc that goes on to the next target when cargo fails
BuildRustc_KeepGoing ==
    /\ pc = "build_target"
    /\ UNCHANGED <<args, platform, crates_dir, outvars, argsinfo, crate_dirs, targets,
                   start_kind, ops>>
    /\ IF ti > Len(targets)
         THEN /\ ci' = ci + 1
              /\ pc' = "build_crates"
              /\ UNCHANGED <<ti, result, log>>
         ELSE \E st \in CargoStatus :
                /\ log' = Append(log, Ev("cargo", "rustc", argsinfo.cargo_args,
                                         crate_dirs[ci], targets[ti], <<>>, <<>>,
                                         st = "ok"))
                /\ UNCHANGED <<ci, result>>
                /\ IF st = "ok"
                     THEN /\ pc' = "create_dir_all"
                          /\ UNCHANGED ti
                     ELSE /\ ti' = ti + 1
                          /\ UNCHANGED pc

\* build_crates, head of the inner loop: cargo_command("rustc", ...) for the
\* next target of the crate
BuildRustc ==
    /\ pc = "build_target"
    /\ UNCHANGED <<args, platform, crates_dir, outvars, argsinfo, crate_dirs, targets,
                   start_kind, ops>>
    /\ IF ti > Len(targets)
         THEN /\ ci' = ci + 1
              /\ pc' = "build_crates"
              /\ UNCHANGED <<ti, result, log>>
         ELSE \E st \in CargoStatus :
                /\ log' = Append(log, Ev("cargo", "rustc", argsinfo.cargo_args,
                                         crate_dirs[ci], targets[ti], <<>>, <<>>,
                                         st = "ok"))
                /\ UNCHANGED <<ci, ti>>
                /\ IF st = "ok"
                     THEN /\ pc' = "create_dir_all"
                          /\ UNCHANGED result
                     ELSE Return(cargo_result(st))

\* build_crates: fs::create_dir_all of priv/crates/<crate>
BuildCreateDir ==
    /\ pc = "create_dir_all"
    /\ UNCHANGED <<args, platform, crates_dir, out_files, argsinfo, crate_dirs, ci,
                   targets, ti, start_kind, ops>>
    /\ \E ok \in BOOLEAN :
         /\ ok => out_kind # "file"
         /\ log' = Append(log, Ev("create_dir_all", "", <<>>, crate_dirs[ci], targets[ti],
                                  <<>>, dst_dir(crate_dirs[ci]), ok))
         /\ IF ok
              THEN /\ out_kind' = "dir"
                   /\ out_dirs' = out_dirs \cup {dst_dir(crate_dirs[ci])}
                   /\ pc' = "copy"
                   /\ UNCHANGED result
              ELSE /\ Return("cannot create dest directories in priv/")
                   /\ UNCHANGED <<out_kind, out_dirs>>

\* BuildCopy that removes the crate's output directory when the copy fails
BuildCopy_Rollback ==
    /\ pc = "copy"
    /\ UNCHANGED <<args, platform, crates_dir, out_kind, argsinfo,
                   crate_dirs, ci, targets, start_kind, ops>>
    /\ \E ok \in BOOLEAN :
         LET src == src_path(argsinfo, platform, crate_dirs[ci], targets[ti])
             dst == dst_path(platform, crate_dirs[ci], targets[ti])
         IN
         /\ log' = Append(log, Ev("copy", "", <<>>, crate_dirs[ci], targets[ti], src, dst, ok))
         /\ IF ok
              THEN /\ out_files' = [p \in DOMAIN out_files \cup {dst} |->
                                      IF p = dst THEN src ELSE out_files[p]]
                   /\ ti' = ti + 1
                   /\ pc' = "build_target"
                   /\ UNCHANGED <<result, out_dirs>>
              ELSE /\ Return("cannot copy artifact")
                   /\ out_dirs' = out_dirs \ {dst_dir(crate_dirs[ci])}
                   /\ out_files' = [p \in {q \in DOMAIN out_files :
                                             SubSeq(q, 1, 3) # dst_dir(crate_dirs[ci])} |->
                                      out_files[p]]
                   /\ UNCHANGED ti

\* build_crates: fs::copy of the artifact, end of the inner loop's body
BuildCopy ==
    /\ pc = "copy"
    /\ UNCHANGED <<args, platform, crates_dir, out_kind, out_dirs, argsinfo,
                   crate_dirs, ci, targets, start_kind, ops>>
    /\ \E ok \in BOOLEAN :
         LET src == src_path(argsinfo, platform, crate_dirs[ci], targets[ti])
             dst == dst_path(platform, crate_dirs[ci], targets[ti])
         IN
         /\ log' = Append(log, Ev("copy", "", <<>>, crate_dirs[ci], targets[ti], src, dst, ok))
         /\ IF ok
              THEN /\ out_files' = [p \in DOMAIN out_files \cup {dst} |->
                                      IF p = dst THEN src ELSE out_files[p]]
                   /\ ti' = ti + 1
                   /\ pc' = "build_target"
                   /\ UNCHANGED result
              ELSE /\ Return("cannot copy artifact")
                   /\ UNCHANGED <<out_files, ti>>

\* TestCrate that goes on to the next crate when cargo fails
TestCrate_KeepGoing ==
    /\ pc = "test_crates"
    /\ UNCHANGED <<args, platform, crates_dir, outvars, argsinfo, crate_dirs, targets,
                   ti, start_kind, ops>>
    /\ IF ci > Len(crate_dirs)
         THEN /\ Return("Ok")
              /\ UNCHANGED <<ci, log>>
         ELSE \E st \in CargoStatus :
                /\ log' = Append(log, Ev("cargo", "test", argsinfo.cargo_args,
                                         crate_dirs[ci], NoTarget, <<>>, <<>>,
                                         st = "ok"))
                /\ ci' = ci + 1
                /\ UNCHANGED <<pc, result>>

\* TestCrate that creates the crate's output directory as the build does
TestCrate_CreatesOutput ==
    /\ pc = "test_crates"
    /\ UNCHANGED <<args, platform, crates_dir, out_files, argsinfo, crate_dirs, targets,
                   ti, start_kind, ops>>
    /\ IF ci > Len(crate_dirs)
         THEN /\ Return("Ok")
              /\ UNCHANGED <<ci, log, out_kind, out_dirs>>
         ELSE \E st \in CargoStatus :
                /\ log' = Append(log, Ev("cargo", "test", argsinfo.cargo_args,
                                         crate_dirs[ci], NoTarget, <<>>, <<>>,
                                         st = "ok"))
                /\ IF st = "ok"
                     THEN /\ ci' = ci + 1
                          /\ out_kind' = IF out_kind = "file" THEN "file" ELSE "dir"
                          /\ out_dirs' = IF out_kind = "file" THEN out_dirs
                                         ELSE out_dirs \cup {dst_dir(crate_dirs[ci])}
                          /\ UNCHANGED <<pc, result>>
                     ELSE /\ Return(cargo_result(st))
                          /\ UNCHANGED <<ci, out_kind, out_dirs>>

\* test_crates: one turn of the loop, cargo_command("test", ...)
TestCrate ==
    /\ pc = "test_crates"
    /\ UNCHANGED <<args, platform, crates_dir, outvars, argsinfo, crate_dirs, targets,
                   ti, start_kind, ops>>
    /\ IF ci > Len(crate_dirs)
         THEN /\ Return("Ok")
              /\ UNCHANGED <<ci, log>>
         ELSE \E st \in CargoStatus :
                /\ log' = Append(log, Ev("cargo", "test", argsinfo.cargo_args,
                                         crate_dirs[ci], NoTarget, <<>>, <<>>,
                                         st = "ok"))
                /\ IF st = "ok"
                     THEN /\ ci' = ci + 1
                          /\ UNCHANGED <<pc, result>>
                     ELSE /\ Return(cargo_result(st))
                          /\ UNCHANGED ci

\* CleanCrate that goes on to the next crate when cargo fails
CleanCrate_KeepGoing ==
    /\ pc = "clean_crates"
    /\ UNCHANGED <<args, platform, crates_dir, outvars, argsinfo, crate_dirs, targets,
                   ti, start_kind, ops>>
    /\ IF ci > Len(crate_dirs)
         THEN /\ pc' = "remove_dir_all_force"
              /\ UNCHANGED <<ci, log, result>>
         ELSE \E st \in CargoStatus :
                /\ log' = Append(log, Ev("cargo", "clean", argsinfo.cargo_args,
                                         crate_dirs[ci], NoTarget, <<>>, <<>>,
                                         st = "ok"))
                /\ ci' = ci + 1
                /\ UNCHANGED <<pc, result>>

\* clean_crates: one turn of the loop, cargo_command("clean", ...)
CleanCrate ==
    /\ pc = "clean_crates"
    /\ UNCHANGED <<args, platform, crates_dir, outvars, argsinfo, crate_dirs, targets,
                   ti, start_kind, ops>>
    /\ IF ci > Len(crate_dirs)
         THEN /\ pc' = "remove_dir_all_force"
              /\ UNCHANGED <<ci, log, result>>
         ELSE \E st \in CargoStatus :
                /\ log' = Append(log, Ev("cargo", "clean", argsinfo.cargo_args,
                                         crate_dirs[ci], NoTarget, <<>>, <<>>,
                                         st = "ok"))
                /\ IF st = "ok"
                     THEN /\ ci' = ci + 1
                          /\ UNCHANGED <<pc, result>>
                     ELSE /\ Return(cargo_result(st))
                          /\ UNCHANGED ci

\* CleanRemoveOutputDir that empties priv/crates and leaves the directory
CleanRemoveOutputDir_KeepsDir ==
    /\ pc = "remove_dir_all_force"
    /\ UNCHANGED <<args, platform, crates_dir, argsinfo, crate_dirs, ci, targets, ti,
                   start_kind, ops>>
    /\ IF out_kind = "absent"
         THEN /\ log' = Append(log, Ev("metadata", "", <<>>, <<>>, NoTarget, <<>>,
                                       output_dir, FALSE))
              /\ Return("can't delete output dir")
              /\ UNCHANGED outvars
         ELSE IF out_kind = "dir"
         THEN \E ok \in BOOLEAN :
                /\ log' = Append(log, Ev("remove_dir_all", "", <<>>, <<>>, NoTarget,
                                         <<>>, output_dir, ok))
                /\ IF ok
                     THEN /\ out_dirs' = {}
                          /\ out_files' = NoFiles
                          /\ Return("Ok")
                          /\ UNCHANGED out_kind
                     ELSE /\ Return("can't delete output dir")
                          /\ UNCHANGED outvars
         ELSE /\ log' = Append(log, Ev("metadata", "", <<>>, <<>>, NoTarget, <<>>,
                                       output_dir, TRUE))
              /\ Return("Ok")
              /\ UNCHANGED outvars

\* clean_crates after the loop: remove_dir_all_force(priv/crates), any error of
\* which becomes "can't delete output dir".  fs::metadata fails on an absent
\* path; a directory is removed by fs::remove_dir_all, which the file system
\* may refuse; anything else is left alone.
CleanRemoveOutputDir ==
    /\ pc = "remove_dir_all_force"
    /\ UNCHANGED <<args, platform, crates_dir, argsinfo, crate_dirs, ci, targets, ti,
                   start_kind, ops>>
    /\ IF out_kind = "absent"
         THEN /\ log' = Append(log, Ev("metadata", "", <<>>, <<>>, NoTarget, <<>>,
                                       output_dir, FALSE))
              /\ Return("can't delete output dir")
              /\ UNCHANGED outvars
         ELSE IF out_kind = "dir"
         THEN \E ok \in BOOLEAN :
                /\ log' = Append(log, Ev("remove_dir_all", "", <<>>, <<>>, NoTarget,
                                         <<>>, output_dir, ok))
                /\ IF ok
                     THEN /\ out_kind' = "absent"
                          /\ out_dirs' = {}
                          /\ out_files' = NoFiles
                          /\ Return("Ok")
                     ELSE /\ Return("can't delete output dir")
                          /\ UNCHANGED outvars
         ELSE /\ log' = Append(log, Ev("metadata", "", <<>>, <<>>, NoTarget, <<>>,
                                       output_dir, TRUE))
              /\ Return("Ok")
              /\ UNCHANGED outvars

Next ==
    \/ InvokeWithArgs
    \/ Exit
    \/ BuildEnumerateTargets
    \/ BuildRustc
    \/ BuildCreateDir
    \/ BuildCopy
    \/ TestCrate
    \/ CleanCrate
    \/ CleanRemoveOutputDir

Spec == Init /\ [][Next]_vars

\* The test operation on a project without crates, invoked with every
\* spelling of the option, for what find_option_value makes of the arguments.
InitArgs ==
    /\ Init
    /\ platform = "unix"
    /\ crates_dir = EmptyApp
    /\ out_kind = "absent"

InvokeWithOptions ==
    \E t \in OptionTails : Invoke(<< <<"cargo-erlangapp">>, <<"test">> >> \o t)

NextArgs ==
    \/ InvokeWithOptions
    \/ TestCrate
    \/ Exit

SpecArgs == InitArgs /\ [][NextArgs]_vars

\* ================================================================ claims
\* what the claims speak about
Discovered == enumerate_crate_dirs(crates_dir)

TargetsOf(dir) == enumerate_targets_opt(EntryOf(crates_dir, dir).manifest)

LogIdx == 1..Len(log)

ToolchainErrors == {"cannot start cargo", "cargo command failed"}

Finished(cmd) == pc = "done" /\ argsinfo.command = cmd

AllCargoOk == \A i \in LogIdx : log[i].op = "cargo" => log[i].ok

\* C1: in a build, a toolchain invocation that cannot be launched or exits
\* non-zero is the last thing the build does: the build has ended with that
\* error, no artifact was copied for that target, and no manifest query,
\* invocation or copy follows for a later target or sub-project.
C1_BuildStopsAtToolchainFailure ==
    argsinfo.command = "Build" =>
      \A i \in LogIdx :
        (log[i].op = "cargo" /\ ~log[i].ok) =>
          /\ i = Len(log)
          /\ pc = "done"
          /\ result \in ToolchainErrors
          /\ \A j \in LogIdx :
               ~(log[j].op = "copy" /\ log[j].dir = log[i].dir /\ log[j].tgt = log[i].tgt)

\* a build stopped by the toolchain after an earlier target was copied and
\* with a sub-project still to come
C1_Witness ==
    /\ Finished("Build")
    /\ result \in ToolchainErrors
    /\ \E j \in LogIdx : log[j].op = "copy" /\ log[j].ok
    /\ ~log[Len(log)].ok
    /\ ci < Len(crate_dirs)

\* C2: every build invocation of the toolchain gets `--bin <name>` or `--lib`,
\* then the pass-through arguments, then the linker directives (non-empty only
\* for a SharedLibrary on the Apple platform), and runs in the sub-project
\* directory.
C2_RustcArguments ==
    \A i \in LogIdx :
      (log[i].op = "cargo" /\ log[i].cmd = "rustc") =>
        /\ log[i].args = rustc_args(argsinfo, platform, log[i].tgt)
        /\ log[i].dir \in {Discovered[k] : k \in 1..Len(Discovered)}

\* C3: with <project>/crates absent or unreadable, build, test and clean end
\* with an error, and clean does not go on to the output tree.
C3_MissingRootIsAnError ==
    (pc = "done" /\ argsinfo.command # "None" /\ ~crates_dir.readable) =>
      /\ result # "Ok"
      /\ \A i \in LogIdx : log[i].op \notin {"metadata", "remove_dir_all"}

C5_CleanOfAbsentTreeSucceeds ==
    (Finished("Clean") /\ AllCargoOk /\ start_kind = "absent") => result = "Ok"

\* C6: a build never removes or rolls back anything: every artifact copied by
\* the running build stays in place as copied and every directory it created
\* stays, also when the build has failed at a later target; and no step of a
\* build removes a file or directory that was in the output tree.
BuildPcs == {"build_crates", "build_target", "create_dir_all", "copy"}

C6_CopiedInPlace ==
    argsinfo.command = "Build" =>
      \A i \in LogIdx :
        /\ (log[i].op = "copy" /\ log[i].ok) =>
             /\ log[i].dst \in DOMAIN out_files
             /\ out_files[log[i].dst] = log[i].src
        /\ (log[i].op = "create_dir_all" /\ log[i].ok) =>
             /\ out_kind = "dir"
             /\ log[i].dst \in out_dirs

C6_NothingRemoved ==
    pc \in BuildPcs =>
      /\ out_dirs \subseteq out_dirs'
      /\ DOMAIN out_files \subseteq DOMAIN out_files'
      /\ out_kind # "absent" => out_kind' = out_kind

C6_BuildNeverRollsBack == []C6_CopiedInPlace /\ [][C6_NothingRemoved]_vars

\* a build that failed after an earlier artifact was copied
C6_Witness ==
    /\ Finished("Build")
    /\ result \in ToolchainErrors \cup {"cannot copy artifact",
                                       "cannot create dest directories in priv/"}
    /\ \E j \in LogIdx : log[j].op = "copy" /\ log[j].ok
    /\ log[Len(log)].op = "copy"

\* C7: the test operation invokes the toolchain's test once per discovered
\* sub-project, in discovery order, with the pass-through arguments; the first
\* failure ends the operation with an error and no later sub-project is tested.
C7_TestInOrderUntilFailure ==
    argsinfo.command = "Test" =>
      /\ Len(log) <= Len(Discovered)
      /\ \A i \in LogIdx :
           /\ log[i].op = "cargo"
           /\ log[i].cmd = "test"
           /\ log[i].args = argsinfo.cargo_args
           /\ log[i].dir = Discovered[i]
           /\ ~log[i].ok => (i = Len(log) /\ pc = "done" /\ result \in ToolchainErrors)
      /\ (pc = "done" /\ result = "Ok") => (Len(log) = Len(Discovered) /\ AllCargoOk)
      /\ pc = "done" => (result = "Ok" \/ (Len(log) > 0 /\ ~log[Len(log)].ok))

\* a test operation stopped at its second sub-project, a third one untested
C7_Witness ==
    /\ Finished("Test")
    /\ Len(log) = 2
    /\ ~log[2].ok
    /\ Len(Discovered) > 2
    /\ argsinfo.cargo_args # <<>>

\* C8: no step of the test operation creates, modifies or removes anything
\* under priv/crates.
C8_TestStepKeepsOutput ==
    (pc = "test_crates" \/ pc' = "test_crates") => UNCHANGED outvars

C8_TestLeavesOutputAlone == [][C8_TestStepKeepsOutput]_vars

\* a test operation that tested sub-projects successfully over an output tree
\* without artifacts
C8_Witness ==
    /\ Finished("Test")
    /\ result = "Ok"
    /\ Len(log) > 1
    /\ out_kind = "absent"
    /\ out_files = NoFiles

\* C9: after a build that succeeds from an absent output tree, priv/crates
\* holds exactly one file per recognized target of each discovered sub-project,
\* at priv/crates/<sub-project base name>/<destination filename>, and no other
\* file or directory.
RECURSIVE CountTargets(_)
CountTargets(dirs) ==
    IF dirs = <<>> THEN 0
    ELSE Len(TargetsOf(dirs[1])[1]) + CountTargets(Tail(dirs))

ArtifactsOf(dir) ==
    { << <<"priv">>, <<"crates">>, dir[Len(dir)],
         target_filenames(platform, TargetsOf(dir)[1][n])[1] >> :
        n \in 1..Len(TargetsOf(dir)[1]) }

ExpectedArtifacts == UNION {ArtifactsOf(Discovered[k]) : k \in 1..Len(Discovered)}

C9_BuildOutputLayout ==
    (Finished("Build") /\ result = "Ok" /\ start_kind = "absent") =>
      /\ \A k \in 1..Len(Discovered) : TargetsOf(Discovered[k]) # None
      /\ DOMAIN out_files = ExpectedArtifacts
      /\ Cardinality(DOMAIN out_files) = CountTargets(Discovered)
      /\ out_dirs = {SubSeq(f, 1, 3) : f \in ExpectedArtifacts}
      /\ out_kind = IF ExpectedArtifacts = {} THEN "absent" ELSE "dir"

\* a successful build from an absent tree of a sub-project with two targets
C9_Witness ==
    /\ Finished("Build")
    /\ result = "Ok"
    /\ start_kind = "absent"
    /\ Cardinality(DOMAIN out_files) >= 2

\* C10: an artifact is copied from <subproject>/target[/<triple>]/<profile>/
\* <source filename>, the triple being there iff a --target value was
\* extracted from the arguments, and the profile directory being release iff
\* --release is among the arguments after the command name, debug otherwise.
C10_SourcePath ==
    \A i \in LogIdx :
      log[i].op = "copy" =>
        log[i].src =
          ((Append(log[i].dir, <<"target">>)
             \o (IF find_option_value(argsinfo.cargo_args, <<"--target">>) # None
                   THEN <<find_option_value(argsinfo.cargo_args, <<"--target">>)[1]>>
                   ELSE <<>>))
             \o << IF \E k \in 1..Len(argsinfo.cargo_args) :
                        argsinfo.cargo_args[k] = <<"--release">>
                     THEN <<"release">> ELSE <<"debug">> >>)
             \o << target_filenames(platform, log[i].tgt)[2] >>

\* C11: of the manifest entries with a name, one whose kinds contain bin
\* becomes an Executable, one whose kinds contain dylib or cdylib a
\* SharedLibrary, any other is dropped; the target list holds the recognized
\* entries in manifest order.
HasKind(obj, k) == obj.kind # None /\ \E i \in 1..Len(obj.kind[1]) : obj.kind[1][i] = k

RECURSIVE RecognizedTargets(_)
RecognizedTargets(objs) ==
    IF objs = <<>> THEN <<>>
    ELSE (IF objs[1].name = None THEN <<>>
          ELSE IF HasKind(objs[1], "bin")
            THEN << [kind |-> "Bin", name |-> objs[1].name[1]] >>
          ELSE IF HasKind(objs[1], "dylib") \/ HasKind(objs[1], "cdylib")
            THEN << [kind |-> "Dylib", name |-> objs[1].name[1]] >>
          ELSE <<>>)
         \o RecognizedTargets(Tail(objs))

C11_ManifestTargets ==
    pc \in {"build_target", "create_dir_all", "copy"} =>
      targets = RecognizedTargets(EntryOf(crates_dir, crate_dirs[ci]).manifest.targets[1])

\* C12: a manifest-query output that is not JSON, or has no targets array,
\* ends the build with the manifest error: the sub-project is not skipped.
Unparsable(m) == ~m.json \/ m.targets = None

C12_UnparsableManifestEndsBuild ==
    argsinfo.command = "Build" =>
      \A i \in LogIdx :
        (/\ log[i].op = "read-manifest"
         /\ log[i].ok
         /\ Unparsable(EntryOf(crates_dir, log[i].dir).manifest)) =>
          /\ i = Len(log)
          /\ pc = "done"
          /\ result = "Cannot parse crate manifest"

\* a build stopped at a manifest without targets array after it built the
\* sub-projects before it
C12_Witness ==
    /\ Finished("Build")
    /\ result = "Cannot parse crate manifest"
    /\ EntryOf(crates_dir, log[Len(log)].dir).manifest.json
    /\ \E j \in LogIdx : log[j].op = "copy" /\ log[j].ok

\* C13: discovery returns exactly the entries of <project>/crates that
\* directly hold a regular file Cargo.toml.
EntrySet == {crates_dir.entries[i] : i \in 1..Len(crates_dir.entries)}

C13_DiscoveryByManifestFile ==
    (pc # "idle" /\ argsinfo.command # "None" /\ crates_dir.readable) =>
      /\ {crate_dirs[k] : k \in 1..Len(crate_dirs)} =
           {<< <<"crates">>, e.name >> : e \in {x \in EntrySet : x.toml = "file"}}
      /\ Len(crate_dirs) = Cardinality({x \in EntrySet : x.toml = "file"})

\* a discovery that kept two sub-projects and left out an entry whose
\* Cargo.toml is a directory
C13_Witness ==
    /\ pc # "idle"
    /\ argsinfo.command # "None"
    /\ Len(crate_dirs) >= 2
    /\ \E e \in EntrySet : e.toml = "dir"

\* C17: target_filenames gives the (destination, source) names of the table:
\* an Executable is (name, name) on the POSIX platforms and (name.exe,
\* name.exe) on Windows; a SharedLibrary is (lib<name>.so, lib<name>.so) on
\* standard POSIX, (lib<name>.so, lib<name>.dylib) on Apple and (name.dll,
\* name.dll) on Windows; the two differ only for a SharedLibrary on Apple.
NameTable(pf, kind, n) ==
    IF kind = "Bin"
      THEN (IF pf = "windows" THEN << n \o <<".exe">>, n \o <<".exe">> >>
            ELSE << n, n >>)
      ELSE (IF pf = "windows" THEN << n \o <<".dll">>, n \o <<".dll">> >>
            ELSE IF pf = "macos"
              THEN << <<"lib">> \o n \o <<".so">>, <<"lib">> \o n \o <<".dylib">> >>
            ELSE << <<"lib">> \o n \o <<".so">>, <<"lib">> \o n \o <<".so">> >>)

C17_NamingTable ==
    \A i \in LogIdx :
      log[i].op = "copy" =>
        LET dst_name == log[i].dst[Len(log[i].dst)]
            src_name == log[i].src[Len(log[i].src)]
        IN /\ <<dst_name, src_name>> = NameTable(platform, log[i].tgt.kind, log[i].tgt.name)
           /\ (dst_name # src_name) <=> (platform = "macos" /\ log[i].tgt.kind = "Dylib")

\* an executable copied on the Apple platform after a shared library
C17_Witness ==
    /\ platform = "macos"
    /\ Len(log) > 0
    /\ log[Len(log)].op = "copy"
    /\ log[Len(log)].tgt.kind = "Bin"
    /\ \E j \in LogIdx : log[j].op = "copy" /\ log[j].ok /\ log[j].tgt.kind = "Dylib"

\* C18: an argument vector with fewer than two elements, or whose second
\* element is not exactly build, test or clean, gives the usage and nothing
\* else: no discovery, no toolchain invocation, no change of the file system.
NoCommandVector(a) ==
    \/ Len(a) < 2
    \/ a[2] \notin {<<"build">>, <<"test">>, <<"clean">>}

C18_UsageOnly ==
    (pc # "idle" /\ NoCommandVector(args)) =>
      /\ pc = "done"
      /\ result = "usage"
      /\ log = <<>>
      /\ crate_dirs = <<>>
      /\ argsinfo = NoArgsInfo
      /\ out_kind = start_kind

C18_UsageStepKeepsFiles ==
    ((pc # "idle" /\ NoCommandVector(args)) \/ (pc' # "idle" /\ NoCommandVector(args')))
      => UNCHANGED outvars

C18_NoCommandNoEffect == []C18_UsageOnly /\ [][C18_UsageStepKeepsFiles]_vars

\* the usage for a command name in the wrong case, over the artifacts of an
\* earlier build
C18_Witness ==
    /\ pc = "done"
    /\ result = "usage"
    /\ Len(args) >= 3
    /\ args[2] = <<"Build">>
    /\ out_files # NoFiles

\* C19: the clean operation invokes the toolchain's clean per discovered
\* sub-project in discovery order; at the first failure it ends with an error,
\* cleans no later sub-project and leaves priv/crates as it was: the removal
\* is attempted only after every sub-project's clean succeeded.
C19_CleanInOrder ==
    argsinfo.command = "Clean" =>
      \A i \in LogIdx :
        /\ i <= Len(Discovered) =>
             /\ log[i].op = "cargo"
             /\ log[i].cmd = "clean"
             /\ log[i].args = argsinfo.cargo_args
             /\ log[i].dir = Discovered[i]
             /\ ~log[i].ok => (i = Len(log) /\ pc = "done" /\ result \in ToolchainErrors)
        /\ i > Len(Discovered) =>
             /\ log[i].op \in {"metadata", "remove_dir_all"}
             /\ i = Len(Discovered) + 1
             /\ \A j \in 1..Len(Discovered) : log[j].ok

C19_CleanLoopKeepsOutput == pc = "clean_crates" => UNCHANGED outvars

C19_CleanStopsAtFailure == []C19_CleanInOrder /\ [][C19_CleanLoopKeepsOutput]_vars

\* a clean stopped at its second sub-project, a third one not cleaned, the
\* artifacts of an earlier build still there
C19_Witness ==
    /\ Finished("Clean")
    /\ Len(log) = 2
    /\ ~log[2].ok
    /\ Len(Discovered) > 2
    /\ out_files # NoFiles

\* C21: in a build, a discovered sub-project whose manifest yields no
\* recognized target gets no rustc invocation, no priv/crates/<sub-project>
\* directory and no copy; the build goes on from it to the manifest of the next
\* sub-project, or ends without error when it was the last one; and a build in
\* which every manifest parses and no invocation or file operation fails ends
\* without error whatever sub-projects are without targets.
NoTargets(dir) == TargetsOf(dir) = Some(<<>>)

IndexOf(dir) == CHOOSE k \in 1..Len(Discovered) : Discovered[k] = dir

C21_NothingBuiltForIt ==
    /\ argsinfo.command = "Build" =>
         \A i \in LogIdx :
           (log[i].cmd = "rustc" \/ log[i].op \in {"create_dir_all", "copy"}) =>
             ~NoTargets(log[i].dir)
    /\ \A k \in 1..Len(Discovered) :
         NoTargets(Discovered[k]) =>
           /\ dst_dir(Discovered[k]) \notin out_dirs
           /\ \A f \in DOMAIN out_files : SubSeq(f, 1, 3) # dst_dir(Discovered[k])

C21_BuildGoesOn ==
    argsinfo.command = "Build" =>
      /\ \A i \in LogIdx :
           (log[i].op = "read-manifest" /\ log[i].ok /\ NoTargets(log[i].dir)) =>
             IF i < Len(log)
               THEN /\ IndexOf(log[i].dir) < Len(Discovered)
                    /\ log[i + 1].op = "read-manifest"
                    /\ log[i + 1].dir = Discovered[IndexOf(log[i].dir) + 1]
               ELSE \/ pc = "build_target" /\ targets = <<>> /\ ci = IndexOf(log[i].dir)
                    \/ pc = "build_crates" /\ ci = IndexOf(log[i].dir) + 1
                    \/ /\ pc = "done"
                       /\ result = "Ok"
                       /\ IndexOf(log[i].dir) = Len(Discovered)
      /\ (/\ pc = "done"
          /\ \A i \in LogIdx : log[i].ok
          /\ \A k \in 1..Len(Discovered) : TargetsOf(Discovered[k]) # None)
         => result = "Ok"

C21_EmptyCrateStep ==
    (pc = "build_target" /\ targets = <<>>) =>
      /\ pc' = "build_crates"
      /\ ci' = ci + 1
      /\ UNCHANGED <<outvars, log, result>>

C21_NoTargetsNoBuild ==
    [](C21_NothingBuiltForIt /\ C21_BuildGoesOn) /\ [][C21_EmptyCrateStep]_vars

\* a build that ended without error, having passed a sub-project without
\* recognized targets between two sub-projects whose artifacts it copied
C21_Witness ==
    /\ Finished("Build")
    /\ result = "Ok"
    /\ \E i \in LogIdx :
         /\ log[i].op = "read-manifest"
         /\ NoTargets(log[i].dir)
         /\ \E j \in 1..(i - 1) : log[j].op = "copy" /\ log[j].ok
         /\ \E j \in (i + 1)..Len(log) : log[j].op = "copy" /\ log[j].ok
    /\ \A k \in 1..Len(Discovered) :
         NoTargets(Discovered[k]) => dst_dir(Discovered[k]) \notin out_dirs

\* ---------------------------------------------- claims on find_option_value
\* the arguments after the command name and the value found in them
Key == <<"--target">>

Opts == SubSeq(args, 3, Len(args))

Parsed == pc # "idle" /\ argsinfo.command # "None"

\* no argument among the first n begins with the key
KeyFree(n) == \A i \in 1..n : ~(Len(Opts[i]) >= 1 /\ Opts[i][1] = "--target")

\* the arguments from position n + 1 on begin with / are the list f
FormAt(n, f) == n + Len(f) <= Len(Opts) /\ SubSeq(Opts, n + 1, n + Len(f)) = f

EndsWith(n, f) == n + Len(f) = Len(Opts) /\ SubSeq(Opts, n + 1, Len(Opts)) = f

Value == <<"v">>

Spellings ==
    { << <<"--target", "=", "v">> >>,
      << <<"--target", "=">>, <<"v">> >>,
      << <<"--target">>, <<"=", "v">> >>,
      << <<"--target">>, <<"=">>, <<"v">> >> }

Unfinished ==
    { << <<"--target">> >>,
      << <<"--target", "=">> >>,
      << <<"--target">>, <<"=">> >> }

\* C14: each of the four spellings of the first occurrence of the key gives
\* the value; there is no value when the key does not occur, when the list
\* ends in the middle of a spelling, and when it ends with the bare key and
\* an argument that is not an = form.
C14_FourSpellings ==
    Parsed =>
      \A n \in 0..Len(Opts) :
        KeyFree(n) =>
          /\ \A f \in Spellings : FormAt(n, f) => argsinfo.target = <<Value>>
          /\ \A f \in Unfinished : EndsWith(n, f) => argsinfo.target = <<>>
          /\ n = Len(Opts) => argsinfo.target = <<>>
          /\ (/\ n + 2 = Len(Opts)
              /\ Opts[n + 1] = Key
              /\ Opts[n + 2][1] # "=") => argsinfo.target = <<>>

\* the spelling in three arguments found after an argument without the key
C14_Witness ==
    /\ Parsed
    /\ Len(Opts) = 3
    /\ Opts = << <<"--target">>, <<"=">>, <<"v">> >>
    /\ argsinfo.target = <<Value>>
    /\ pc = "done"

\* C15: when the bare key is followed by an argument that is neither = nor
\* begins with =, the scan goes on with the arguments after that key: the
\* value is the one found in them.
C15_ScanGoesOnAfterKey ==
    Parsed =>
      \A n \in 0..Len(Opts) :
        (/\ KeyFree(n)
         /\ n + 2 <= Len(Opts)
         /\ Opts[n + 1] = Key
         /\ Opts[n + 2][1] # "=") =>
          argsinfo.target = find_option_value(SubSeq(Opts, n + 2, Len(Opts)), Key)

\* C16: for an argument key=value the value is all that follows the first =,
\* also when it holds further = characters.
C16_WholeValue ==
    Parsed =>
      \A n \in 0..Len(Opts) :
        (/\ KeyFree(n)
         /\ n + 1 <= Len(Opts)
         /\ Len(Opts[n + 1]) >= 3
         /\ Opts[n + 1][1] = "--target"
         /\ Opts[n + 1][2] = "=") =>
          argsinfo.target = << SubSeq(Opts[n + 1], 3, Len(Opts[n + 1])) >>

\* C20: a value is found only if some argument is the key or the key followed
\* at once by =; a longer option name that begins with the key gives none.
C20_KeyIsWholeOptionName ==
    (Parsed /\ argsinfo.target # <<>>) =>
      \E i \in 1..Len(Opts) :
        \/ Opts[i] = Key
        \/ (Len(Opts[i]) >= 2 /\ Opts[i][1] = "--target" /\ Opts[i][2] = "=")

====
